---- MODULE Spec2Model ----
(***************************************************************************)
(* A model of the sandboxed tool layer of the ai_agent repository: the     *)
(* file operations of functions/get_files_info.py, functions/              *)
(* get_file_content.py, functions/write_file_content.py and functions/     *)
(* run_python.py, and the dispatch loop of main.py.                        *)
(*                                                                         *)
(* Python strings that the code inspects character by character (paths)    *)
(* are sequences of one-character strings.  File contents are run-length   *)
(* encoded sequences of <<character, count>> runs, so that a file of more  *)
(* than MAX_CHARS characters is an ordinary value.  A formatted string     *)
(* (an f-string, a concatenation) is the sequence of its parts: literal    *)
(* pieces and interpolated values.                                         *)
(***************************************************************************)
EXTENDS Integers, Sequences, FiniteSets, TLC

VARIABLES fs, last, ncalls, child, run, mainpc, parts, idx,
          has_function_calls, function_results, modelCalls

vars == <<fs, last, ncalls, child, run, mainpc, parts, idx,
          has_function_calls, function_results, modelCalls>>

\* ------------------------------------------------------------- bounds

\* The largest number of parts in one planning response.
MaxParts == 2

\* The largest number of operations called directly, one after the other.
MaxCalls == 2

\* ---------------------------------------------------------- constants

\* config.MAX_CHARS, the read limit of get_file_content.
MAX_CHARS == 10000

\* subprocess.run(..., timeout=30).
Timeout == 30

\* ------------------------------------------------------ python strings

\* The value None, where a string was expected.
NoneArg == <<"None">>

IsStr(a) == a # NoneArg

\* str.startswith
StartsWith(s, prefix) ==
    /\ Len(prefix) <= Len(s)
    /\ SubSeq(s, 1, Len(prefix)) = prefix

\* str.endswith
EndsWith(s, suffix) ==
    /\ Len(suffix) <= Len(s)
    /\ SubSeq(s, Len(s) - Len(suffix) + 1, Len(s)) = suffix

RECURSIVE SplitAt(_, _, _, _)
SplitAt(s, i, cur, acc) ==
    IF i > Len(s) THEN Append(acc, cur)
    ELSE IF s[i] = "/" THEN SplitAt(s, i + 1, <<>>, Append(acc, cur))
    ELSE SplitAt(s, i + 1, Append(cur, s[i]), acc)

\* str.split("/")
Split(s) == SplitAt(s, 1, <<>>, <<>>)

RECURSIVE JoinSep(_)
\* "/".join(comps)
JoinSep(comps) ==
    IF comps = <<>> THEN <<>>
    ELSE IF Len(comps) = 1 THEN comps[1]
    ELSE comps[1] \o <<"/">> \o JoinSep(Tail(comps))

\* os.path.isabs
IsAbs(s) == s # <<>> /\ s[1] = "/"

\* os.path.join(a, b)
Join(a, b) ==
    IF IsAbs(b) THEN b
    ELSE IF a = <<>> \/ a[Len(a)] = "/" THEN a \o b
    ELSE a \o <<"/">> \o b

DotDot == <<".", ".">>

RECURSIVE NormComps(_, _, _, _)
\* The loop of posixpath.normpath over the components of the path.
NormComps(comps, i, initial, acc) ==
    IF i > Len(comps) THEN acc
    ELSE LET c == comps[i] IN
         IF c = <<>> \/ c = <<".">> THEN NormComps(comps, i + 1, initial, acc)
         ELSE IF \/ c # DotDot
                 \/ (initial = 0 /\ acc = <<>>)
                 \/ (acc # <<>> /\ acc[Len(acc)] = DotDot)
              THEN NormComps(comps, i + 1, initial, Append(acc, c))
         ELSE IF acc # <<>>
              THEN NormComps(comps, i + 1, initial, SubSeq(acc, 1, Len(acc) - 1))
         ELSE NormComps(comps, i + 1, initial, acc)

\* The number of leading slashes normpath keeps: POSIX treats exactly two specially.
InitialSlashes(s) ==
    IF ~IsAbs(s) THEN 0
    ELSE IF Len(s) >= 2 /\ s[2] = "/" /\ ~(Len(s) >= 3 /\ s[3] = "/") THEN 2
    ELSE 1

\* os.path.normpath
NormPath(s) ==
    IF s = <<>> THEN <<".">>
    ELSE LET initial == InitialSlashes(s)
             body == JoinSep(NormComps(Split(s), 1, initial, <<>>))
             path == [i \in 1..initial |-> "/"] \o body
         IN  IF path = <<>> THEN <<".">> ELSE path

\* os.getcwd(): the directory the agent is started in.
Cwd == <<"/", "h">>

\* os.path.abspath
AbsPath(s) == NormPath(IF IsAbs(s) THEN s ELSE Join(Cwd, s))

RECURSIVE LastSlash(_, _)
\* str.rfind("/") + 1
LastSlash(s, i) == IF i = 0 THEN 0 ELSE IF s[i] = "/" THEN i ELSE LastSlash(s, i - 1)

RECURSIVE RStripSlash(_)
RStripSlash(s) ==
    IF s # <<>> /\ s[Len(s)] = "/" THEN RStripSlash(SubSeq(s, 1, Len(s) - 1)) ELSE s

\* os.path.dirname
DirName(s) ==
    LET head == SubSeq(s, 1, LastSlash(s, Len(s)))
    IN  IF head # <<>> /\ RStripSlash(head) # <<>> THEN RStripSlash(head) ELSE head

\* os.path.basename
BaseName(s) == SubSeq(s, LastSlash(s, Len(s)) + 1, Len(s))

\* ---------------------------------------------------- file contents

\* The characters file contents are made of.  "W" stands for a character
\* whose UTF-8 encoding takes two bytes; CR and LF are the line ends.
CR == "\r"
LF == "\n"
Width(ch) == IF ch = "W" THEN 2 ELSE 1

RECURSIVE CharLen(_)
\* len(content): the number of characters.
CharLen(c) == IF c = <<>> THEN 0 ELSE c[1][2] + CharLen(Tail(c))

RECURSIVE ByteLen(_)
\* The size in bytes of the text as written to disk (UTF-8).
ByteLen(c) == IF c = <<>> THEN 0 ELSE c[1][2] * Width(c[1][1]) + ByteLen(Tail(c))

RECURSIVE Canon(_)
\* The canonical run-length form: no empty run, no two adjacent runs of one character.
Canon(c) ==
    IF c = <<>> THEN <<>>
    ELSE IF c[1][2] = 0 THEN Canon(Tail(c))
    ELSE IF Len(c) >= 2 /\ c[2][1] = c[1][1]
         THEN Canon(<< <<c[1][1], c[1][2] + c[2][2]>> >> \o SubSeq(c, 3, Len(c)))
    ELSE IF Len(c) >= 2 /\ c[2][2] = 0
         THEN Canon(<<c[1]>> \o SubSeq(c, 3, Len(c)))
    ELSE <<c[1]>> \o Canon(Tail(c))

RECURSIVE Take(_, _)
\* content[:n]
Take(c, n) ==
    IF c = <<>> \/ n <= 0 THEN <<>>
    ELSE IF c[1][2] >= n THEN << <<c[1][1], n>> >>
    ELSE <<c[1]>> \o Take(Tail(c), n - c[1][2])

RECURSIVE Universal(_)
\* The newline translation of a text-mode read (newline=None): "\r\n" and
\* "\r" both become "\n".
Universal(c) ==
    IF c = <<>> THEN <<>>
    ELSE IF c[1][1] = CR
         THEN IF Len(c) >= 2 /\ c[2][1] = LF
              THEN << <<LF, c[1][2] + c[2][2] - 1>> >> \o Universal(SubSeq(c, 3, Len(c)))
              ELSE << <<LF, c[1][2]>> >> \o Universal(Tail(c))
    ELSE <<c[1]>> \o Universal(Tail(c))

\* What open(path, "r") decodes the stored text to.
Decoded(c) == Canon(Universal(c))

\* -------------------------------------------------------- the filesystem

\* A filesystem maps each absolute path it tracks to what is there.
NoNode == [kind |-> "none", data |-> <<>>]
DirNode == [kind |-> "dir", data |-> <<>>]
FileNode(c) == [kind |-> "file", data |-> c]

Node(fsx, p) == IF p \in DOMAIN fsx THEN fsx[p] ELSE NoNode

\* os.path.exists, os.path.isfile, os.path.isdir
Exists(fsx, p) == Node(fsx, p).kind # "none"
IsFile(fsx, p) == Node(fsx, p).kind = "file"
IsDir(fsx, p) == Node(fsx, p).kind = "dir"

RECURSIVE AncestorsOrSelf(_)
AncestorsOrSelf(p) ==
    IF DirName(p) = p \/ DirName(p) = <<>> THEN {p}
    ELSE {p} \cup AncestorsOrSelf(DirName(p))

\* os.makedirs(d): every missing directory down to d is created; a regular
\* file on the way, or a refusal of the operating system (io = "mkdir"),
\* raises and creates nothing.
MakeDirs(fsx, d, io) ==
    IF \E a \in AncestorsOrSelf(d) : IsFile(fsx, a)
    THEN [ok |-> FALSE, exc |-> [type |-> "NotADirectoryError", cmd |-> <<>>], fs |-> fsx]
    ELSE IF io = "mkdir"
    THEN [ok |-> FALSE, exc |-> [type |-> "PermissionError", cmd |-> <<>>], fs |-> fsx]
    ELSE [ok |-> TRUE, exc |-> [type |-> "none", cmd |-> <<>>],
          fs |-> [q \in DOMAIN fsx |->
                    IF q \in AncestorsOrSelf(d) /\ ~Exists(fsx, q) THEN DirNode ELSE fsx[q]]]

\* with open(p, "w") as f: f.write(content).  open fails on a directory, on a
\* missing parent and when the operating system refuses (io = "open"); it
\* creates or truncates the file otherwise, and a write that then fails
\* (io = "write") leaves it empty.
OpenWrite(fsx, p, content, io) ==
    IF IsDir(fsx, p)
    THEN [ok |-> FALSE, exc |-> [type |-> "IsADirectoryError", cmd |-> <<>>], fs |-> fsx]
    ELSE IF ~IsDir(fsx, DirName(p))
    THEN [ok |-> FALSE, exc |-> [type |-> "FileNotFoundError", cmd |-> <<>>], fs |-> fsx]
    ELSE IF io = "open"
    THEN [ok |-> FALSE, exc |-> [type |-> "PermissionError", cmd |-> <<>>], fs |-> fsx]
    ELSE IF io = "write"
    THEN [ok |-> FALSE, exc |-> [type |-> "OSError", cmd |-> <<>>],
          fs |-> [q \in DOMAIN fsx |-> IF q = p THEN FileNode(<<>>) ELSE fsx[q]]]
    ELSE [ok |-> TRUE, exc |-> [type |-> "none", cmd |-> <<>>],
          fs |-> [q \in DOMAIN fsx |-> IF q = p THEN FileNode(content) ELSE fsx[q]]]

\* ------------------------------------------------- strings returned

\* The parts of a formatted string.
Lit(s) == [t |-> "lit", v |-> s]
Str(p) == [t |-> "str", v |-> p]
Num(n) == [t |-> "int", v |-> n]
Text(c) == [t |-> "text", v |-> c]
Exc(e) == [t |-> "exc", v |-> e]
Lines(entries) == [t |-> "lines", v |-> entries]

\* How a call ends: it returns a string, or an exception leaves it.
Return(val) == [kind |-> "return", val |-> val]
Raise(type) == [kind |-> "raise", val |-> <<Exc([type |-> type, cmd |-> <<>>])>>]

TypeError == [type |-> "TypeError", cmd |-> <<>>]

\* What an operation leaves behind: its result and the filesystem.
Out(result, fsx) == [result |-> result, fs |-> fsx]

\* ------------------------------------------ functions/get_files_info.py

\* One line of the listing: "- {item}: file_size={file_size} bytes, is_dir={is_dir}".
ListingLine(fsx, item_path) ==
    [name |-> BaseName(item_path),
     file_size |-> IF IsFile(fsx, item_path) THEN ByteLen(fsx[item_path].data) ELSE 0,
     is_dir |-> IsDir(fsx, item_path)]

\* os.listdir(full_path), as paths.
ListDir(fsx, full_path) ==
    {p \in DOMAIN fsx : Exists(fsx, p) /\ p # full_path /\ DirName(p) = full_path}

get_files_info(fsx, working_directory, directory, io) ==
    IF ~IsStr(directory)
    THEN Out(Return(<<Lit("Error"), Lit(": "), Exc(TypeError)>>), fsx)
    ELSE LET full_path == AbsPath(Join(working_directory, directory))
             working_directory_abs == AbsPath(working_directory)
         IN  IF ~StartsWith(full_path, working_directory_abs)
             THEN Out(Return(<<Lit("Error"), Lit(": Cannot list \""), Str(directory),
                               Lit("\" as it is outside the permitted working directory")>>), fsx)
             ELSE IF ~IsDir(fsx, full_path)
             THEN Out(Return(<<Lit("Error"), Lit(": \""), Str(directory),
                               Lit("\" is not a directory")>>), fsx)
             ELSE IF io # "ok"
             THEN Out(Return(<<Lit("Error"), Lit(": "),
                               Exc([type |-> "PermissionError", cmd |-> <<>>])>>), fsx)
             ELSE Out(Return(<<Lit("Result for \""), Str(directory), Lit("\" directory:"),
                               Lines({ListingLine(fsx, p) : p \in ListDir(fsx, full_path)})>>), fsx)

gfi_write_file(fsx, working_directory, file_path, content, io) ==
    IF ~IsStr(file_path)
    THEN Out(Return(<<Lit("Error"), Lit(": "), Exc(TypeError)>>), fsx)
    ELSE LET full_path == AbsPath(Join(working_directory, file_path))
             working_directory_abs == AbsPath(working_directory)
             directory == DirName(full_path)
             made == IF ~Exists(fsx, directory) THEN MakeDirs(fsx, directory, io)
                     ELSE [ok |-> TRUE, exc |-> [type |-> "none", cmd |-> <<>>], fs |-> fsx]
             written == OpenWrite(made.fs, full_path, content, io)
         IN  IF ~StartsWith(full_path, working_directory_abs)
             THEN Out(Return(<<Lit("Error"), Lit(": Cannot write to \""), Str(file_path),
                               Lit("\" as it is outside the permitted working directory")>>), fsx)
             ELSE IF ~made.ok
             THEN Out(Return(<<Lit("Error"), Lit(": "), Exc(made.exc)>>), made.fs)
             ELSE IF ~written.ok
             THEN Out(Return(<<Lit("Error"), Lit(": "), Exc(written.exc)>>), written.fs)
             ELSE Out(Return(<<Lit("Successfully wrote to \""), Str(file_path), Lit("\" ("),
                               Num(CharLen(content)), Lit(" characters written)")>>), written.fs)

\* The length get_files_info.get_file_content truncates at.
GfiTruncateAt == 10000

gfi_get_file_content(fsx, working_directory, file_path, io) ==
    IF ~IsStr(file_path)
    THEN Out(Return(<<Lit("Error"), Lit(": "), Exc(TypeError)>>), fsx)
    ELSE LET full_path == AbsPath(Join(working_directory, file_path))
             working_directory_abs == AbsPath(working_directory)
             content == Decoded(Node(fsx, full_path).data)
         IN  IF ~StartsWith(full_path, working_directory_abs)
             THEN Out(Return(<<Lit("Error"), Lit(": Cannot read \""), Str(file_path),
                               Lit("\" as it is outside the permitted working directory")>>), fsx)
             ELSE IF ~IsFile(fsx, full_path)
             THEN Out(Return(<<Lit("Error"), Lit(": File not found or is not a regular file: \""),
                               Str(full_path), Lit("\"")>>), fsx)
             ELSE IF io # "ok"
             THEN Out(Return(<<Lit("Error"), Lit(": "),
                               Exc([type |-> "PermissionError", cmd |-> <<>>])>>), fsx)
             ELSE IF CharLen(content) > GfiTruncateAt
             THEN Out(Return(<<Text(Take(content, GfiTruncateAt)), Lit("[...File truncated at "),
                               Num(GfiTruncateAt), Lit(" characters]")>>), fsx)
             ELSE Out(Return(<<Text(content)>>), fsx)

\* ---------------------------------------- functions/get_file_content.py

get_file_content(fsx, working_directory, file_path, io) ==
    IF ~IsStr(file_path)
    THEN Out(Raise("TypeError"), fsx)
    ELSE LET abs_working_dir == AbsPath(working_directory)
             abs_file_path == AbsPath(Join(working_directory, file_path))
             content == Take(Decoded(Node(fsx, abs_file_path).data), MAX_CHARS)
         IN  IF ~StartsWith(abs_file_path, abs_working_dir)
             THEN Out(Return(<<Lit("Error"), Lit(": Cannot read \""), Str(file_path),
                               Lit("\" as it is outside the permitted working directory")>>), fsx)
             ELSE IF ~IsFile(fsx, abs_file_path)
             THEN Out(Return(<<Lit("Error"), Lit(": File not found or is not a regular file: \""),
                               Str(file_path), Lit("\"")>>), fsx)
             ELSE IF io # "ok"
             THEN Out(Return(<<Lit("Error"), Lit(" reading file \""), Str(file_path), Lit("\": "),
                               Exc([type |-> "PermissionError", cmd |-> <<>>])>>), fsx)
             ELSE IF ByteLen(Node(fsx, abs_file_path).data) > MAX_CHARS
             THEN Out(Return(<<Text(content), Lit("[...File \""), Str(file_path),
                               Lit("\" truncated at "), Num(MAX_CHARS), Lit(" characters]")>>), fsx)
             ELSE Out(Return(<<Text(content)>>), fsx)

\* -------------------------------------- functions/write_file_content.py

\* A write_file without the test for a directory at the target.
write_file_no_directory_check(fsx, working_directory, file_path, content, io) ==
    IF ~IsStr(file_path)
    THEN Out(Raise("TypeError"), fsx)
    ELSE LET abs_working_dir == AbsPath(working_directory)
             abs_file_path == AbsPath(Join(working_directory, file_path))
             made == IF ~Exists(fsx, abs_file_path)
                     THEN MakeDirs(fsx, DirName(abs_file_path), io)
                     ELSE [ok |-> TRUE, exc |-> [type |-> "none", cmd |-> <<>>], fs |-> fsx]
             written == OpenWrite(made.fs, abs_file_path, content, io)
         IN  IF ~StartsWith(abs_file_path, abs_working_dir)
             THEN Out(Return(<<Lit("Error"), Lit(": Cannot write to \""), Str(file_path),
                               Lit("\" as it is outside the permitted working directory")>>), fsx)
             ELSE IF ~made.ok
             THEN Out(Return(<<Lit("Error"), Lit(": creating directory: "), Exc(made.exc)>>),
                      made.fs)
             ELSE IF ~written.ok
             THEN Out(Return(<<Lit("Error"), Lit(": writing to file: "), Exc(written.exc)>>),
                      written.fs)
             ELSE Out(Return(<<Lit("Successfully wrote to \""), Str(file_path), Lit("\" ("),
                               Num(CharLen(content)), Lit(" characters written)")>>), written.fs)

\* A write_file that checks the containment only after it has written.
write_file_checks_late(fsx, working_directory, file_path, content, io) ==
    IF ~IsStr(file_path)
    THEN Out(Raise("TypeError"), fsx)
    ELSE LET abs_working_dir == AbsPath(working_directory)
             abs_file_path == AbsPath(Join(working_directory, file_path))
             written == OpenWrite(fsx, abs_file_path, content, io)
         IN  IF ~StartsWith(abs_file_path, abs_working_dir)
             THEN Out(Return(<<Lit("Error"), Lit(": Cannot write to \""), Str(file_path),
                               Lit("\" as it is outside the permitted working directory")>>),
                      written.fs)
             ELSE IF ~written.ok
             THEN Out(Return(<<Lit("Error"), Lit(": writing to file: "), Exc(written.exc)>>),
                      written.fs)
             ELSE Out(Return(<<Lit("Successfully wrote to \""), Str(file_path), Lit("\" ("),
                               Num(CharLen(content)), Lit(" characters written)")>>), written.fs)

write_file(fsx, working_directory, file_path, content, io) ==
    IF ~IsStr(file_path)
    THEN Out(Raise("TypeError"), fsx)
    ELSE LET abs_working_dir == AbsPath(working_directory)
             abs_file_path == AbsPath(Join(working_directory, file_path))
             made == IF ~Exists(fsx, abs_file_path)
                     THEN MakeDirs(fsx, DirName(abs_file_path), io)
                     ELSE [ok |-> TRUE, exc |-> [type |-> "none", cmd |-> <<>>], fs |-> fsx]
             written == OpenWrite(made.fs, abs_file_path, content, io)
         IN  IF ~StartsWith(abs_file_path, abs_working_dir)
             THEN Out(Return(<<Lit("Error"), Lit(": Cannot write to \""), Str(file_path),
                               Lit("\" as it is outside the permitted working directory")>>), fsx)
             ELSE IF ~made.ok
             THEN Out(Return(<<Lit("Error"), Lit(": creating directory: "), Exc(made.exc)>>),
                      made.fs)
             ELSE IF Exists(made.fs, abs_file_path) /\ IsDir(made.fs, abs_file_path)
             THEN Out(Return(<<Lit("Error"), Lit(": \""), Str(file_path),
                               Lit("\" is a directory, not a file")>>), made.fs)
             ELSE IF ~written.ok
             THEN Out(Return(<<Lit("Error"), Lit(": writing to file: "), Exc(written.exc)>>),
                      written.fs)
             ELSE Out(Return(<<Lit("Successfully wrote to \""), Str(file_path), Lit("\" ("),
                               Num(CharLen(content)), Lit(" characters written)")>>), written.fs)

\* ---------------------------------------------- functions/run_python.py

\* What subprocess.run did: the child ran to completion, the timeout
\* expired, or the child could not be started.
Completed(stdout, stderr, returncode) ==
    [kind |-> "completed", stdout |-> stdout, stderr |-> stderr, returncode |-> returncode]
TimedOut == [kind |-> "timeout", stdout |-> <<>>, stderr |-> <<>>, returncode |-> 0]
SpawnFailed == [kind |-> "oserror", stdout |-> <<>>, stderr |-> <<>>, returncode |-> 0]

\* The result of the checks made before the child is started.
Checked(spawn, result, cmd) == [spawn |-> spawn, result |-> result, cmd |-> cmd]
Pending == [kind |-> "pending", val |-> <<>>]

RECURSIVE JoinNewline(_)
\* "\n".join(output)
JoinNewline(output) ==
    IF output = <<>> THEN <<>>
    ELSE IF Len(output) = 1 THEN output[1]
    ELSE output[1] \o <<Lit("\n")>> \o JoinNewline(Tail(output))

\* The checks of run_python_file before it starts the child.
run_python_file_checks(fsx, working_directory, file_path) ==
    IF ~IsStr(file_path)
    THEN Checked(FALSE, Raise("TypeError"), <<>>)
    ELSE LET abs_working_dir == AbsPath(working_directory)
             abs_file_path == AbsPath(Join(working_directory, file_path))
         IN  IF ~StartsWith(abs_file_path, abs_working_dir)
             THEN Checked(FALSE, Return(<<Lit("Error"), Lit(": Cannot execute \""), Str(file_path),
                          Lit("\" as it is outside the permitted working directory")>>), <<>>)
             ELSE IF ~Exists(fsx, abs_file_path)
             THEN Checked(FALSE, Return(<<Lit("Error"), Lit(": File \""), Str(file_path),
                          Lit("\" not found.")>>), <<>>)
             ELSE IF ~EndsWith(file_path, <<".", "p", "y">>)
             THEN Checked(FALSE, Return(<<Lit("Error"), Lit(": \""), Str(file_path),
                          Lit("\" is not a Python file.")>>), <<>>)
             ELSE Checked(TRUE, Pending, abs_file_path)

\* A run_python_file that reports the exit code whatever it is.
run_python_file_output_any_code(o, cmd) ==
    IF o.kind = "completed"
    THEN LET output ==
                 (IF o.stdout # <<>> THEN << <<Lit("STDOUT:\n"), Text(o.stdout)>> >> ELSE <<>>)
              \o (IF o.stderr # <<>> THEN << <<Lit("STDERR:\n"), Text(o.stderr)>> >> ELSE <<>>)
              \o << <<Lit("Process exited with code "), Num(o.returncode)>> >>
         IN  Return(JoinNewline(output))
    ELSE Return(<<Lit("Error"), Lit(": executing Python file: "),
                  Exc([type |-> IF o.kind = "timeout" THEN "TimeoutExpired"
                                ELSE "FileNotFoundError", cmd |-> cmd])>>)

\* The string run_python_file makes of what subprocess.run did.
run_python_file_output(o, cmd) ==
    IF o.kind = "completed"
    THEN LET output ==
                 (IF o.stdout # <<>> THEN << <<Lit("STDOUT:\n"), Text(o.stdout)>> >> ELSE <<>>)
              \o (IF o.stderr # <<>> THEN << <<Lit("STDERR:\n"), Text(o.stderr)>> >> ELSE <<>>)
              \o (IF o.returncode # 0
                  THEN << <<Lit("Process exited with code "), Num(o.returncode)>> >> ELSE <<>>)
         IN  Return(IF output # <<>> THEN JoinNewline(output) ELSE <<Lit("No output produced.")>>)
    ELSE IF o.kind = "timeout"
    THEN Return(<<Lit("Error"), Lit(": executing Python file: "),
                  Exc([type |-> "TimeoutExpired", cmd |-> cmd])>>)
    ELSE Return(<<Lit("Error"), Lit(": executing Python file: "),
                  Exc([type |-> "FileNotFoundError", cmd |-> <<>>])>>)

\* What subprocess.run leaves of the child when the timeout expires: it
\* kills the child and waits for it before raising TimeoutExpired.
ChildAfterTimeout == "killed"

\* ------------------------- functions/get_files_info.py: run_python_file

gfi_run_python_file_checks(fsx, working_directory, file_path) ==
    IF ~IsStr(file_path)
    THEN Checked(FALSE, Return(<<Lit("Error"), Lit(": executing Python file: "),
                 Exc(TypeError)>>), <<>>)
    ELSE LET full_path == AbsPath(Join(working_directory, file_path))
             working_directory_abs == AbsPath(working_directory)
         IN  IF ~StartsWith(full_path, working_directory_abs)
             THEN Checked(FALSE, Return(<<Lit("Error"), Lit(": Cannot execute \""), Str(file_path),
                          Lit("\" as it is outside the permitted working directory")>>), <<>>)
             ELSE IF ~Exists(fsx, full_path)
             THEN Checked(FALSE, Return(<<Lit("Error"), Lit(": File \""), Str(file_path),
                          Lit("\" not found.")>>), <<>>)
             ELSE IF ~EndsWith(file_path, <<".", "p", "y">>)
             THEN Checked(FALSE, Return(<<Lit("Error"), Lit(": \""), Str(file_path),
                          Lit("\" is not a Python file.")>>), <<>>)
             ELSE Checked(TRUE, Pending, full_path)

gfi_run_python_file_output(o, cmd) ==
    IF o.kind = "completed"
    THEN LET output_lines ==
                 (IF o.stdout # <<>> THEN << <<Lit("STDOUT:\n"), Text(o.stdout)>> >> ELSE <<>>)
              \o (IF o.stderr # <<>> THEN << <<Lit("STDERR:\n"), Text(o.stderr)>> >> ELSE <<>>)
              \o (IF o.returncode # 0
                  THEN << <<Lit("Process exited with code "), Num(o.returncode)>> >> ELSE <<>>)
         IN  Return(IF output_lines = <<>> THEN <<Lit("No output produced.")>>
                    ELSE JoinNewline(output_lines))
    ELSE IF o.kind = "timeout"
    THEN Return(<<Lit("Error"),
                  Lit(": executing Python file: Process timed out after 30 seconds")>>)
    ELSE Return(<<Lit("Error"), Lit(": executing Python file: "),
                  Exc([type |-> "FileNotFoundError", cmd |-> <<>>])>>)

\* ------------------------------------------------------------ main.py

\* The working directory every tool call is run in ("calculator").
WorkingDir == <<"w">>

\* A working_directory entry the model did not supply.
Absent == <<"absent">>

\* A dispatcher that lets the tool call choose the working directory.
ModelSuppliedWorkingDirectory(part) == IF part.wd # Absent THEN part.wd ELSE WorkingDir

\* The working directory call_function passes to the operation: its own,
\* whatever the arguments of the tool call hold.
InjectedWorkingDirectory(part) == WorkingDir

\* call_function, for the tools that start no process: the operation the
\* tool name stands for, run in the injected working directory.
call_function(fsx, part, io) ==
    LET working_directory == InjectedWorkingDirectory(part)
    IN  CASE part.name = "get_files_info" ->
                 get_files_info(fsx, working_directory, part.path, io)
          [] part.name = "get_file_content" ->
                 gfi_get_file_content(fsx, working_directory, part.path, io)
          [] part.name = "write_file" ->
                 gfi_write_file(fsx, working_directory, part.path, part.content, io)
          [] OTHER ->
                 Out(Return(<<Lit("Error"), Lit(": Unknown function: "), Lit(part.name)>>), fsx)

\* The function response handed back for one tool call.
ToolResult(name, result) == [name |-> name, payload |-> result.val]

\* A loop that puts each result in front of the earlier ones.
PrependResult(results, function_result) == <<function_result>> \o results

\* function_results.append(function_result)
AppendResult(results, function_result) == Append(results, function_result)

\* part.function_call is set
IsFunctionCall(part) == part.kind = "call"

\* ------------------------------------------------------------- inputs

Hi == << <<"h", 1>>, <<"i", 1>> >>
Long == << <<"a", MAX_CHARS + 1>> >>
Wide == << <<"W", (MAX_CHARS \div 2) + 1>> >>
CrLf == << <<"a", 1>>, <<CR, 1>>, <<LF, 1>>, <<"b", 1>> >>

P_dot == <<".">>
P_empty == <<>>
P_a == <<"a">>
P_d == <<"d">>
P_nb == <<"n", "/", "b">>
P_sibling == <<".", ".", "/", "w", "2", "/", "x">>
P_sibling_script == <<".", ".", "/", "w", "2", "/", "y", ".", "p", "y">>
P_parent == <<".", ".", "/", "x">>
P_abs == <<"/", "b">>
P_script == <<"m", ".", "p", "y">>

\* The path arguments tried: strings, and None.
PathArgs == {P_dot, P_a, P_d, P_nb, P_sibling, P_sibling_script, P_parent, P_abs, P_script,
             NoneArg}
ReadPaths == PathArgs \ {P_script, P_sibling_script}
WritePaths == {P_a, P_d, P_dot, P_empty, P_nb, P_parent, NoneArg}
RunPaths == {P_script, P_a, P_nb, P_sibling, P_sibling_script, NoneArg}
WriteContents == {Wide, CrLf}

\* What the operating system does to the call: nothing, or it refuses one step.
ReadIOs == {"ok", "open"}
WriteIOs == {"ok", "mkdir", "write"}

\* What a child that runs to completion leaves.
Stdouts == {<<>>, Hi}
Stderrs == {<<>>, CrLf}
ReturnCodes == {0, 2}

\* The paths the filesystem tracks: every path an argument resolves to, and
\* the directories above it.
Universe ==
    UNION {AncestorsOrSelf(AbsPath(Join(WorkingDir, p))) : p \in PathArgs \ {NoneArg}}

\* The filesystem the agent is started on.
InitFs ==
    [p \in Universe |->
        CASE p \in {<<"/">>, <<"/", "h">>, <<"/", "h", "/", "w">>,
                    <<"/", "h", "/", "w", "2">>, <<"/", "h", "/", "w", "/", "d">>} -> DirNode
          [] p = <<"/", "h", "/", "w", "/", "a">> -> FileNode(Long)
          [] p = <<"/", "h", "/", "w", "/", "m", ".", "p", "y">> -> FileNode(Hi)
          [] p = <<"/", "h", "/", "w", "2", "/", "y", ".", "p", "y">> -> FileNode(Hi)
          [] p \in {<<"/", "h", "/", "w", "2", "/", "x">>, <<"/", "h", "/", "x">>,
                    <<"/", "b">>} -> FileNode(Hi)
          [] OTHER -> NoNode]

\* The parts a planning response is made of: text, and tool calls.
TextPart == [kind |-> "text", name |-> "", path |-> <<>>, content |-> <<>>, wd |-> Absent]
ToolCall(name, path, content, wd) ==
    [kind |-> "call", name |-> name, path |-> path, content |-> content, wd |-> wd]
DispatchParts ==
    {TextPart,
     ToolCall("write_file", P_nb, Hi, Absent),
     ToolCall("get_file_content", P_nb, <<>>, Absent),
     ToolCall("get_file_content", <<"b">>, <<>>, <<"/">>),
     ToolCall("get_files_info", P_dot, <<>>, Absent),
     ToolCall("run_python_file", P_script, <<>>, Absent)}
Responses == UNION {[1..n -> DispatchParts] : n \in 0..MaxParts}

\* -------------------------------------------------------------- state

\* The last call of an operation: what it was given and how it ended.
Call(op, impl, caller, wd, path, content, io, proc, result) ==
    [op |-> op, impl |-> impl, caller |-> caller, wd |-> wd, path |-> path,
     content |-> content, io |-> io, proc |-> proc, result |-> result]
NoProc == [kind |-> "none", stdout |-> <<>>, stderr |-> <<>>, returncode |-> 0]
NoCall == Call("none", "none", "none", <<>>, <<>>, <<>>, "ok", NoProc, Pending)

\* The call of run_python_file waiting for its child.
NoRun == [active |-> FALSE, impl |-> "none", caller |-> "none", cmd |-> <<>>, elapsed |-> 0]

mainvars == <<mainpc, parts, idx, has_function_calls, function_results, modelCalls>>

Init ==
    /\ fs = InitFs
    /\ last = NoCall
    /\ ncalls = 0
    /\ child = "none"
    /\ run = NoRun
    /\ mainpc = "idle"
    /\ parts = <<>>
    /\ idx = 0
    /\ has_function_calls = FALSE
    /\ function_results = <<>>
    /\ modelCalls = 0

\* ---------------------------------------------- the operations, called

\* An operation is called directly (as the repository's tests.py does)
\* while no dispatch cycle runs and no call is in progress.
Idle == mainpc = "idle" /\ ~run.active /\ ncalls < MaxCalls

CallGetFilesInfo ==
    \E p \in ReadPaths, io \in ReadIOs :
        /\ Idle
        /\ LET o == get_files_info(fs, WorkingDir, p, io)
           IN  /\ fs' = o.fs
               /\ last' = Call("get_files_info", "get_files_info", "direct", WorkingDir, p,
                               <<>>, io, NoProc, o.result)
        /\ ncalls' = ncalls + 1
        /\ UNCHANGED <<child, run, mainvars>>

CallGetFileContent ==
    \E p \in ReadPaths, io \in ReadIOs :
        /\ Idle
        /\ LET o == get_file_content(fs, WorkingDir, p, io)
           IN  /\ fs' = o.fs
               /\ last' = Call("get_file_content", "get_file_content", "direct", WorkingDir, p,
                               <<>>, io, NoProc, o.result)
        /\ ncalls' = ncalls + 1
        /\ UNCHANGED <<child, run, mainvars>>

CallGfiGetFileContent ==
    \E p \in ReadPaths, io \in ReadIOs :
        /\ Idle
        /\ LET o == gfi_get_file_content(fs, WorkingDir, p, io)
           IN  /\ fs' = o.fs
               /\ last' = Call("get_file_content", "get_files_info", "direct", WorkingDir, p,
                               <<>>, io, NoProc, o.result)
        /\ ncalls' = ncalls + 1
        /\ UNCHANGED <<child, run, mainvars>>

CallWriteFile ==
    \E p \in WritePaths, c \in WriteContents, io \in WriteIOs :
        /\ Idle
        /\ LET o == write_file(fs, WorkingDir, p, c, io)
           IN  /\ fs' = o.fs
               /\ last' = Call("write_file", "write_file_content", "direct", WorkingDir, p,
                               c, io, NoProc, o.result)
        /\ ncalls' = ncalls + 1
        /\ UNCHANGED <<child, run, mainvars>>

CallGfiWriteFile ==
    \E p \in WritePaths, c \in WriteContents, io \in WriteIOs :
        /\ Idle
        /\ LET o == gfi_write_file(fs, WorkingDir, p, c, io)
           IN  /\ fs' = o.fs
               /\ last' = Call("write_file", "get_files_info", "direct", WorkingDir, p,
                               c, io, NoProc, o.result)
        /\ ncalls' = ncalls + 1
        /\ UNCHANGED <<child, run, mainvars>>

\* --------------------------------------------------- run_python_file

Checks(impl, wd, p) ==
    IF impl = "run_python" THEN run_python_file_checks(fs, wd, p)
    ELSE gfi_run_python_file_checks(fs, wd, p)

Output(impl, o, cmd) ==
    IF impl = "run_python" THEN run_python_file_output(o, cmd)
    ELSE gfi_run_python_file_output(o, cmd)

\* The caller gets the result: main appends it and goes on to the next part.
Deliver(caller, result) ==
    IF caller = "main"
    THEN /\ function_results' =
               AppendResult(function_results, ToolResult("run_python_file", result))
         /\ idx' = idx + 1
    ELSE UNCHANGED <<function_results, idx>>

\* run_python_file up to subprocess.run: the checks, then the child is
\* started, unless the operating system cannot start it.
StartRun(impl, caller, wd, p, spawnok) ==
    LET c == Checks(impl, wd, p)
        call(proc, result) ==
            Call("run_python_file", impl, caller, wd, p, <<>>, "ok", proc, result)
    IN  /\ fs' = fs
        /\ IF ~c.spawn
           THEN /\ last' = call(NoProc, c.result)
                /\ Deliver(caller, c.result)
                /\ UNCHANGED <<child, run>>
           ELSE IF ~spawnok
           THEN /\ last' = call(SpawnFailed, Output(impl, SpawnFailed, c.cmd))
                /\ Deliver(caller, Output(impl, SpawnFailed, c.cmd))
                /\ UNCHANGED <<child, run>>
           ELSE /\ last' = call(NoProc, Pending)
                /\ run' = [active |-> TRUE, impl |-> impl, caller |-> caller,
                           cmd |-> c.cmd, elapsed |-> 0]
                /\ child' = "running"
                /\ UNCHANGED <<function_results, idx>>

CallRunPythonFile ==
    \E impl \in {"run_python", "get_files_info"}, p \in RunPaths, spawnok \in BOOLEAN :
        /\ Idle
        /\ StartRun(impl, "direct", WorkingDir, p, spawnok)
        /\ ncalls' = ncalls + 1
        /\ UNCHANGED <<mainpc, parts, has_function_calls, modelCalls>>

\* Time passes while the child runs.
Tick ==
    /\ run.active /\ child = "running" /\ run.elapsed < Timeout
    /\ run' = [run EXCEPT !.elapsed = @ + 1]
    /\ UNCHANGED <<fs, last, ncalls, child, mainvars>>

\* The child ends before the timeout; subprocess.run returns what it left.
ChildExits ==
    \E stdout \in Stdouts, stderr \in Stderrs, returncode \in ReturnCodes :
        /\ run.active /\ child = "running" /\ run.elapsed < Timeout
        /\ LET proc == Completed(stdout, stderr, returncode)
               result == Output(run.impl, proc, run.cmd)
           IN  /\ last' = [last EXCEPT !.proc = proc, !.result = result]
               /\ Deliver(run.caller, result)
        /\ child' = "exited"
        /\ run' = NoRun
        /\ UNCHANGED <<fs, ncalls, mainpc, parts, has_function_calls, modelCalls>>

\* A subprocess.run given no timeout: the wait for the child goes on.
TimeoutIgnored ==
    /\ run.active /\ child = "running" /\ run.elapsed = Timeout
    /\ UNCHANGED vars

\* The timeout expires with the child still running.
TimeoutExpires ==
    /\ run.active /\ child = "running" /\ run.elapsed = Timeout
    /\ LET result == Output(run.impl, TimedOut, run.cmd)
       IN  /\ last' = [last EXCEPT !.proc = TimedOut, !.result = result]
           /\ Deliver(run.caller, result)
    /\ child' = ChildAfterTimeout
    /\ run' = NoRun
    /\ UNCHANGED <<fs, ncalls, mainpc, parts, has_function_calls, modelCalls>>

\* ------------------------------------------------- the dispatch cycle

\* The planning call of the model, and its response.
MainPlan ==
    \E response \in Responses :
        /\ mainpc = "idle" /\ ncalls = 0 /\ ~run.active
        /\ parts' = response
        /\ idx' = 1
        /\ has_function_calls' = FALSE
        /\ function_results' = <<>>
        /\ modelCalls' = 1
        /\ mainpc' = IF response # <<>> THEN "loop" ELSE "print"
        /\ UNCHANGED <<fs, last, ncalls, child, run>>

\* A part that is no function call is passed over.
MainLoopText ==
    /\ mainpc = "loop" /\ ~run.active /\ idx <= Len(parts)
    /\ ~IsFunctionCall(parts[idx])
    /\ idx' = idx + 1
    /\ UNCHANGED <<fs, last, ncalls, child, run, mainpc, parts, has_function_calls,
                   function_results, modelCalls>>

\* A function call is executed and its result appended.
MainLoopCall ==
    \E io \in ReadIOs :
        /\ mainpc = "loop" /\ ~run.active /\ idx <= Len(parts)
        /\ IsFunctionCall(parts[idx])
        /\ parts[idx].name # "run_python_file"
        /\ LET part == parts[idx]
               o == call_function(fs, part, io)
           IN  /\ fs' = o.fs
               /\ last' = Call(part.name, "get_files_info", "main",
                               InjectedWorkingDirectory(part), part.path, part.content,
                               io, NoProc, o.result)
               /\ function_results' =
                      AppendResult(function_results, ToolResult(part.name, o.result))
        /\ has_function_calls' = TRUE
        /\ idx' = idx + 1
        /\ UNCHANGED <<ncalls, child, run, mainpc, parts, modelCalls>>

\* A call of run_python_file: the loop goes on when the call has returned.
MainLoopRun ==
    \E spawnok \in BOOLEAN :
        /\ mainpc = "loop" /\ ~run.active /\ idx <= Len(parts)
        /\ IsFunctionCall(parts[idx])
        /\ parts[idx].name = "run_python_file"
        /\ StartRun("get_files_info", "main", InjectedWorkingDirectory(parts[idx]),
                    parts[idx].path, spawnok)
        /\ has_function_calls' = TRUE
        /\ UNCHANGED <<ncalls, mainpc, parts, modelCalls>>

\* A main that asks the model for a final answer after every loop.
MainLoopEndAlwaysFinal ==
    /\ mainpc = "loop" /\ ~run.active /\ idx > Len(parts)
    /\ mainpc' = "final"
    /\ UNCHANGED <<fs, last, ncalls, child, run, parts, idx, has_function_calls,
                   function_results, modelCalls>>

\* After the loop: with function calls, the model is called once more.
MainLoopEnd ==
    /\ mainpc = "loop" /\ ~run.active /\ idx > Len(parts)
    /\ mainpc' = IF has_function_calls THEN "final" ELSE "print"
    /\ UNCHANGED <<fs, last, ncalls, child, run, parts, idx, has_function_calls,
                   function_results, modelCalls>>

MainFinal ==
    /\ mainpc = "final"
    /\ modelCalls' = modelCalls + 1
    /\ mainpc' = "print"
    /\ UNCHANGED <<fs, last, ncalls, child, run, parts, idx, has_function_calls, function_results>>

MainPrint ==
    /\ mainpc = "print"
    /\ mainpc' = "done"
    /\ UNCHANGED <<fs, last, ncalls, child, run, parts, idx, has_function_calls,
                   function_results, modelCalls>>

Next ==
    \/ CallGetFilesInfo
    \/ CallGetFileContent
    \/ CallGfiGetFileContent
    \/ CallWriteFile
    \/ CallGfiWriteFile
    \/ CallRunPythonFile
    \/ Tick
    \/ ChildExits
    \/ TimeoutExpires
    \/ MainPlan
    \/ MainLoopText
    \/ MainLoopCall
    \/ MainLoopRun
    \/ MainLoopEnd
    \/ MainFinal
    \/ MainPrint

Spec == Init /\ [][Next]_vars

\* The operating system lets time pass, and subprocess.run acts on its timeout.
FairSpec == Spec /\ WF_vars(Tick) /\ WF_vars(TimeoutExpires)

\* ------------------------------------------------------------- claims

\* The containment the specification asks for: the resolved path is the
\* root, or lies under it at a path-separator boundary.
Contained(root, resolved) == resolved = root \/ StartsWith(resolved, root \o <<"/">>)

\* The string is an operation's "outside the permitted working directory" error.
IsContainmentError(result) ==
    /\ result.kind = "return"
    /\ Len(result.val) = 4
    /\ result.val[1] = Lit("Error")
    /\ result.val[4] = Lit("\" as it is outside the permitted working directory")

\* The last call has ended; its root and the path it resolved.
Ended == last.op # "none" /\ last.result.kind # "pending"
Root == AbsPath(last.wd)
Resolved == AbsPath(Join(last.wd, last.path))

\* A call ends in this step.
CallEnds ==
    \/ ncalls' = ncalls + 1 /\ last'.result.kind # "pending"
    \/ Len(function_results') = Len(function_results) + 1
    \/ last.result.kind = "pending" /\ last'.result.kind # "pending"

\* C1: an operation goes past its containment check only if the normalized
\* join of root and path is the root or lies under it at a separator
\* boundary; for every other path it returns its "outside the permitted
\* working directory" error.
C1_ContainmentAtBoundary ==
    (Ended /\ IsStr(last.path) /\ ~Contained(Root, Resolved))
        => IsContainmentError(last.result)

\* C2: the operation a tool call is dispatched to runs in the dispatcher's
\* own working directory, also when the arguments of the tool call hold a
\* working_directory entry.
C2_RootInjected ==
    last.caller = "main" => last.wd = WorkingDir

C2_Witness ==
    /\ last.caller = "main" /\ last.op = "get_file_content" /\ Ended
    /\ idx > 1 /\ parts[idx - 1].wd # Absent

WroteOk(l) ==
    /\ l.op = "write_file" /\ l.result.kind = "return"
    /\ l.result.val[1] = Lit("Successfully wrote to \"")

\* C4: a successful write of at most MAX_CHARS characters followed by a read
\* of the same path returns exactly the content written.
C4_WriteReadRoundTrip ==
    [][(/\ WroteOk(last) /\ CharLen(last.content) <= MAX_CHARS
        /\ ncalls' = ncalls + 1
        /\ last'.op = "get_file_content" /\ last'.path = last.path /\ last'.io = "ok")
          => last'.result = Return(<<Text(last.content)>>)]_vars

\* The last call read a regular file inside the working directory, and no
\* input/output error came in its way.
ReadAFile ==
    /\ Ended /\ last.op = "get_file_content" /\ IsStr(last.path) /\ last.io = "ok"
    /\ Contained(Root, Resolved) /\ IsFile(fs, Resolved)
FileText == Decoded(Node(fs, Resolved).data)

\* The truncation marker naming the path and the limit.
Marker(path, limit) ==
    <<Lit("[...File \""), Str(path), Lit("\" truncated at "), Num(limit), Lit(" characters]")>>

\* C5: of a file longer than MAX_CHARS characters, get_file_content returns
\* the first MAX_CHARS characters followed by the marker
\* [...File "<path>" truncated at <MAX_CHARS> characters].
C5_TruncationLaw ==
    (ReadAFile /\ CharLen(FileText) > MAX_CHARS)
        => /\ last.result.kind = "return"
           /\ last.result.val = <<Text(Take(FileText, MAX_CHARS))>> \o Marker(last.path, MAX_CHARS)

\* The first part of a string returned on success.
SuccessHeads ==
    {Lit("Successfully wrote to \""), Lit("Result for \""), Lit("STDOUT:\n"), Lit("STDERR:\n"),
     Lit("Process exited with code "), Lit("No output produced.")}

\* C6: every call returns a string, no exception leaves it, and a string
\* returned for a failure begins with "Error".
C6_AlwaysAString ==
    Ended => /\ last.result.kind = "return"
             /\ \/ last.result.val[1] = Lit("Error")
                \/ last.result.val[1].t = "text"
                \/ last.result.val[1] \in SuccessHeads

\* The string is the timeout error of run_python_file: an error, and none
\* that a child that could not be started or that ran to completion gives.
IsTimeoutError(result, impl, cmd) ==
    /\ result.kind = "return"
    /\ result.val[1] = Lit("Error")
    /\ result # Output(impl, SpawnFailed, cmd)
    /\ \A stdout \in Stdouts, stderr \in Stderrs, returncode \in ReturnCodes :
          result # Output(impl, Completed(stdout, stderr, returncode), cmd)
    /\ \/ \E i \in 1..Len(result.val) :
             result.val[i].t = "exc" /\ result.val[i].v.type = "TimeoutExpired"
       \/ \E i \in 1..Len(result.val) :
             result.val[i] = Lit(": executing Python file: Process timed out after 30 seconds")

AtTimeout == run.active /\ child = "running" /\ run.elapsed = Timeout
ReturnedOnTimeout ==
    /\ ~run.active /\ child = "killed" /\ last.proc = TimedOut
    /\ IsTimeoutError(last.result, last.impl, Resolved)
    /\ (last.caller = "main" =>
            function_results[Len(function_results)] = ToolResult("run_python_file", last.result))

\* C7: when the child is still running at the timeout, the call returns
\* with the child terminated, and what it returns is a timeout error that
\* no other failure gives.
C7_TimeoutReturns ==
    /\ [](last.proc = TimedOut => (child # "running" /\ ~run.active))
    /\ (AtTimeout ~> ReturnedOnTimeout)

C7_Witness == ReturnedOnTimeout /\ last.impl = "run_python"

\* The function calls among the parts handled so far, in order.
CallsDone == SelectSeq(SubSeq(parts, 1, idx - 1), IsFunctionCall)

\* The string is what a read that met an input/output error returns.
IsIOError(payload) ==
    Len(payload) = 3 /\ payload[1] = Lit("Error") /\ payload[3].t = "exc"

\* C8: the tool calls of one response are executed one at a time in the
\* order of the response; there is one result per call, in that order, and
\* a read that follows a write in the response sees what was written.
C8_SequentialInOrder ==
    mainpc \in {"loop", "final", "print", "done"} =>
        /\ Len(function_results) = Len(CallsDone)
        /\ \A k \in 1..Len(CallsDone) : function_results[k].name = CallsDone[k].name
        /\ \A i, j \in 1..Len(CallsDone) :
              (/\ i < j
               /\ CallsDone[i].name = "write_file"
               /\ function_results[i].payload[1] = Lit("Successfully wrote to \"")
               /\ CallsDone[j].name = "get_file_content"
               /\ CallsDone[j].path = CallsDone[i].path
               /\ \A m \in (i + 1)..(j - 1) : CallsDone[m].name # "write_file")
                  => \/ function_results[j].payload = <<Text(CallsDone[i].content)>>
                     \/ IsIOError(function_results[j].payload)

C8_Witness ==
    /\ mainpc = "final"
    /\ Len(parts) = 2
    /\ parts[1].name = "write_file" /\ parts[2].name = "get_file_content"
    /\ function_results[1].payload[1] = Lit("Successfully wrote to \"")
    /\ function_results[2].payload = <<Text(Hi)>>

\* The part at place i opens the section with this header, and the
\* captured text follows it.
SectionAt(val, i, header, text) ==
    val[i] = Lit(header) /\ i < Len(val) /\ val[i + 1] = Text(text)

\* C9: of a child that ran to completion, the string returned has a STDOUT:
\* section exactly when stdout is not empty, a STDERR: section exactly when
\* stderr is not empty, a "Process exited with code <n>" line with the exit
\* code exactly when it is not zero, and is "No output produced." exactly
\* when there is none of the three.
C9_OutputSections ==
    (Ended /\ last.proc.kind = "completed") =>
        LET val == last.result.val
            o == last.proc
        IN  /\ last.result.kind = "return"
            /\ (\E i \in 1..Len(val) : val[i] = Lit("STDOUT:\n")) <=> (o.stdout # <<>>)
            /\ \A i \in 1..Len(val) :
                  val[i] = Lit("STDOUT:\n") => SectionAt(val, i, "STDOUT:\n", o.stdout)
            /\ (\E i \in 1..Len(val) : val[i] = Lit("STDERR:\n")) <=> (o.stderr # <<>>)
            /\ \A i \in 1..Len(val) :
                  val[i] = Lit("STDERR:\n") => SectionAt(val, i, "STDERR:\n", o.stderr)
            /\ (\E i \in 1..Len(val) : val[i] = Lit("Process exited with code "))
                  <=> (o.returncode # 0)
            /\ \A i \in 1..Len(val) :
                  val[i] = Lit("Process exited with code ")
                      => (i < Len(val) /\ val[i + 1] = Num(o.returncode))
            /\ (val = <<Lit("No output produced.")>>)
                  <=> (o.stdout = <<>> /\ o.stderr = <<>> /\ o.returncode = 0)

C9_Witness ==
    /\ Ended /\ last.proc.kind = "completed"
    /\ last.proc.stdout = <<>> /\ last.proc.stderr # <<>> /\ last.proc.returncode = 2

\* The string ends with a truncation marker.
HasMarker(val) ==
    \E i \in 1..Len(val) : val[i].t = "lit" /\ val[i].v = " characters]"

\* C10: get_file_content appends the truncation marker exactly when the file
\* has more than MAX_CHARS characters, and returns a file of at most
\* MAX_CHARS characters as it is.
C10_MarkerIffLonger ==
    ReadAFile =>
        /\ last.result.kind = "return"
        /\ HasMarker(last.result.val) <=> (CharLen(FileText) > MAX_CHARS)
        /\ (CharLen(FileText) <= MAX_CHARS) => (last.result.val = <<Text(FileText)>>)

\* The string says that the target of the write is a directory: the message
\* of functions/write_file_content.py, or the operating system's
\* IsADirectoryError as functions/get_files_info.py returns it.
IsDirectoryError(result, impl, path) ==
    IF impl = "write_file_content"
    THEN result = Return(<<Lit("Error"), Lit(": \""), Str(path),
                           Lit("\" is a directory, not a file")>>)
    ELSE result = Return(<<Lit("Error"), Lit(": "),
                           Exc([type |-> "IsADirectoryError", cmd |-> <<>>])>>)

\* C11: a write_file whose resolved target, inside the working directory,
\* is a directory when it is called returns an error string saying so and
\* leaves the whole filesystem as it was.
C11_WriteToDirectory ==
    [][(/\ CallEnds /\ last'.op = "write_file" /\ IsStr(last'.path)
        /\ Contained(AbsPath(last'.wd), AbsPath(Join(last'.wd, last'.path)))
        /\ IsDir(fs, AbsPath(Join(last'.wd, last'.path))))
          => (/\ IsDirectoryError(last'.result, last'.impl, last'.path)
              /\ fs' = fs)]_vars

C11_Witness ==
    /\ last.op = "write_file" /\ last.impl = "write_file_content" /\ last.path = P_empty
    /\ IsDirectoryError(last.result, last.impl, last.path)

\* The error of run_python_file for a path that does not exist, and for one
\* that does not end in ".py".
NotFoundError(path) ==
    Return(<<Lit("Error"), Lit(": File \""), Str(path), Lit("\" not found.")>>)
NotPythonError(path) ==
    Return(<<Lit("Error"), Lit(": \""), Str(path), Lit("\" is not a Python file.")>>)

\* C12: a call of run_python_file whose path is outside the working
\* directory, or else does not exist, or else does not end in ".py",
\* returns the error of the first of these checks that fails, and no child
\* process is started for it.
C12_ChecksBeforeSpawn ==
    (last.op = "run_python_file" /\ IsStr(last.path)) =>
        IF ~Contained(Root, Resolved)
        THEN IsContainmentError(last.result) /\ last.proc = NoProc /\ ~run.active
        ELSE IF ~Exists(fs, Resolved)
        THEN last.result = NotFoundError(last.path) /\ last.proc = NoProc /\ ~run.active
        ELSE IF ~EndsWith(last.path, <<".", "p", "y">>)
        THEN last.result = NotPythonError(last.path) /\ last.proc = NoProc /\ ~run.active
        ELSE TRUE

\* The tool calls of the planning response.
HasCalls == \E i \in 1..Len(parts) : IsFunctionCall(parts[i])
NumCalls == Len(SelectSeq(parts, IsFunctionCall))

\* Where the cycle stands, in model calls and tools executed.
CycleInv ==
    /\ modelCalls <= 2
    /\ mainpc = "idle" => modelCalls = 0
    /\ mainpc = "loop" => modelCalls = 1
    /\ mainpc = "final" =>
          modelCalls = 1 /\ HasCalls /\ idx > Len(parts) /\ Len(function_results) = NumCalls
    /\ mainpc \in {"print", "done"} =>
          /\ modelCalls = (IF HasCalls THEN 2 ELSE 1)
          /\ Len(function_results) = NumCalls
          /\ ~HasCalls => (fs = InitFs /\ last = NoCall /\ child = "none")

\* How far the cycle has come.
Rank(pc) ==
    CASE pc = "idle" -> 0 [] pc = "loop" -> 1 [] pc = "final" -> 2
      [] pc = "print" -> 3 [] pc = "done" -> 4

\* A step of the cycle: the model is called from the start or after the
\* whole batch; a tool is executed for the part the loop stands at, which
\* the loop then leaves behind; and every step takes the cycle forward, to
\* the next statement, the next part or the next moment of the wait for the
\* child, so that nothing is done again.
CycleStep ==
    /\ modelCalls' # modelCalls =>
          /\ modelCalls' = modelCalls + 1
          /\ mainpc = "idle" \/ (mainpc = "final" /\ idx > Len(parts))
    /\ (mainpc # "idle" /\ function_results' # function_results) =>
          /\ mainpc = "loop" /\ idx <= Len(parts) /\ IsFunctionCall(parts[idx])
          /\ idx' = idx + 1 /\ parts' = parts
          /\ Len(function_results') = Len(function_results) + 1
          /\ function_results'[Len(function_results')].name = parts[idx].name
    /\ mainpc # "idle" =>
          \/ Rank(mainpc') > Rank(mainpc)
          \/ mainpc' = mainpc /\ idx' = idx + 1
          \/ mainpc' = mainpc /\ idx' = idx /\ ~run.active /\ run'.active
          \/ /\ mainpc' = mainpc /\ idx' = idx /\ run.active /\ run'.active
             /\ run'.elapsed = run.elapsed + 1 /\ run'.elapsed <= Timeout

\* C13: a dispatch cycle calls the model once for planning and, exactly when
\* the response holds a tool call, once more after every tool call has been
\* executed once; a response without tool calls executes nothing; nothing
\* is done again, so the cycle ends, after at most two model calls.
C13_DispatchCycle ==
    /\ []CycleInv
    /\ [][CycleStep]_vars

C13_Witness ==
    /\ mainpc = "done" /\ modelCalls = 2
    /\ Len(parts) = 2 /\ ~IsFunctionCall(parts[1]) /\ IsFunctionCall(parts[2])
    /\ Len(function_results) = 1

\* The error of get_file_content for a path that names no regular file.
NotAFileError(path) ==
    Return(<<Lit("Error"), Lit(": File not found or is not a regular file: \""), Str(path),
             Lit("\"")>>)

\* C14: an error string of a file operation holds no path but the one the
\* caller supplied, and the reader's error for a path that names no regular
\* file is Error: File not found or is not a regular file: "<path>" with
\* that path.
C14_ErrorsNameSuppliedPath ==
    (/\ Ended /\ last.op \in {"get_files_info", "get_file_content", "write_file"}
     /\ IsStr(last.path) /\ last.result.kind = "return"
     /\ last.result.val[1] = Lit("Error"))
        => /\ \A i \in 1..Len(last.result.val) :
                 last.result.val[i].t = "str" => last.result.val[i].v = last.path
           /\ (/\ last.op = "get_file_content"
               /\ Contained(Root, Resolved) /\ ~IsFile(fs, Resolved))
                  => last.result = NotAFileError(last.path)

====
